---- MODULE Spec2Model ----
(***************************************************************************)
(* Model of frankenstein.py: the streak search (find_50commits_month and   *)
(* find_contributor_50commits_month), the time-of-day envelope             *)
(* (compute_commit_time_period), the redistribution of commit dates        *)
(* (redistribute_commits) and the __main__ orchestration that chains them. *)
(*                                                                         *)
(* Sequences keep Python's 0-based indices: Get(l, k) is l[k], negative k  *)
(* counting from the end, Slice(l, a, b) is l[a:b].  Timestamps are epoch  *)
(* seconds; local time is modelled without DST, so a calendar day is a     *)
(* block of 86400 seconds.                                                 *)
(***************************************************************************)
EXTENDS Integers, Sequences, FiniteSets, TLC

VARIABLES logs, logs0, pc, num_commit, contributor, trace,
          rebuilds, error, numbers_of_commits, min_time, max_time,
          start_date, writes

vars == <<logs, logs0, pc, num_commit, contributor, trace,
          rebuilds, error, numbers_of_commits, min_time, max_time,
          start_date, writes>>

----------------------------------------------------------------------------
(* Program constants *)

STREAK == 50
MIN_COMMITS == 50
NB_DAYS == 29
MIN_TOTAL == 50
MAX_TOTAL == 60
DAY == 24 * 3600
MONTH == 29 * 24 * 3600
None == "None"
your_email == "me"

(* Bounds of the model *)

MaxLen == 54
RandPeriod == 2

----------------------------------------------------------------------------
(* Python sequence access *)

Norm(k, n) == IF k < 0 THEN k + n ELSE k

InRange(l, k) == Norm(k, Len(l)) >= 0 /\ Norm(k, Len(l)) < Len(l)

Get(l, k) == l[Norm(k, Len(l)) + 1]

Clamp(k, n) == IF k < 0 THEN (IF k + n < 0 THEN 0 ELSE k + n)
               ELSE (IF k > n THEN n ELSE k)

Slice(l, a, b) == SubSeq(l, Clamp(a, Len(l)) + 1, Clamp(b, Len(l)))

\* sum(s[a .. b]), by halves
RECURSIVE sum_range(_, _, _)
sum_range(s, a, b) ==
    IF a > b THEN 0
    ELSE IF a = b THEN s[a]
    ELSE LET m == (a + b) \div 2
         IN  sum_range(s, a, m) + sum_range(s, m + 1, b)

sum(s) == sum_range(s, 1, Len(s))

Min(S) == CHOOSE x \in S : \A y \in S : x <= y

Max(S) == CHOOSE x \in S : \A y \in S : x >= y

----------------------------------------------------------------------------
(* find_50commits_month *)

matches(log, author) == author /= None /\ log.author_email = author

\* (the break left out)
too_old_never(period) == FALSE

too_old(period) == period > MONTH

enough(nb_commits) == nb_commits >= STREAK

\* The inner loop "for j in range(i-1, 0, -1)": TRUE iff it executes
\* "return i".  Only the matching commits run the body; the loop breaks at
\* the first of them (highest j) that is too old, and nb_commits, when the
\* body runs for j, is the number of matching commits above j.  So it
\* returns at the first matching j, above the break, with enough above it.
scan(l, author, i) ==
    LET matching == { j \in 1 .. i - 1 : matches(Get(l, j), author) }
        old == { j \in matching :
                   too_old(Get(l, i).author_date - Get(l, j).author_date) }
        stop == IF old = {} THEN 0 ELSE Max(old)
        nb_commits(j) == Cardinality({ j2 \in matching : j2 > j })
    IN  \E j \in matching : j > stop /\ enough(nb_commits(j))

\* The outer loop "for i in range(len(logs)-1, 50, -1)".
RECURSIVE find_from(_, _, _)
find_from(l, author, i) ==
    IF i <= 50 THEN -1
    ELSE IF scan(l, author, i) THEN i
    ELSE find_from(l, author, i - 1)

find_50commits_month(l, author) == find_from(l, author, Len(l) - 1)

(* find_contributor_50commits_month: <<contributor, num_commit>> *)
RECURSIVE find_contributor_from(_, _, _)
find_contributor_from(cs, l, k) ==
    IF k > Len(cs) THEN <<None, -1>>
    ELSE LET n == find_50commits_month(l, cs[k])
         IN  IF n /= -1 THEN <<cs[k], n>>
             ELSE find_contributor_from(cs, l, k + 1)

find_contributor_50commits_month(cs, l) == find_contributor_from(cs, l, 1)

(* compute_offset *)
compute_offset(l, n, now) == now - Get(l, n).author_date

----------------------------------------------------------------------------
(* compute_commit_time_period *)

\* hour * 3600 + minute * 60 + second of the local time of a timestamp
commit_time_of(t) == t % DAY

\* The loop keeps the least and the greatest commit_time seen, starting
\* from min_time = 3600 * 24 and max_time = 0.
compute_commit_time_period(l) ==
    LET times == { commit_time_of(l[i].author_date) : i \in 1 .. Len(l) }
    IN  <<Min(times \cup {3600 * 24}), Max(times \cup {0})>>

----------------------------------------------------------------------------
(* redistribute_commits *)

\* (the date taken with its time of day)
no_midnight(t) == t

\* time.mktime(fromtimestamp(t).date().timetuple()): local midnight of t
midnight(t) == t - (t % DAY)

\* (the date of the last commit of the list taken as the start)
last_date(l, start_commit) == Get(l, -1).author_date

\* "logs[start_commit]['author-date']"
first_date(l, start_commit) == Get(l, start_commit).author_date

\* (an hour per day)
day_in_hours(start, num_day) == start + num_day * 3600

day_of(start, num_day) == start + num_day * 24 * 3600

\* (only the short plans rejected)
plan_rejected_short(plan) == Len(plan) < 29

plan_rejected(plan) == Len(plan) /= 29

window_slice(l, start_commit, end_commit) == Slice(l, start_commit, end_commit)

\* random.randint(a, b): some integer of [a, b], ends included.  The draws
\* of one run form a stream r of period RandPeriod, taken at the ends of the
\* range: the k-th draw (k from 0) is a when r[k % RandPeriod] = 0, else b.
Streams == [0 .. RandPeriod - 1 -> {0, 1}]

randint(a, b, r, k) == IF r[k % RandPeriod] = 0 THEN a ELSE b

\* The two nested loops "for num_day in range(0, 29)" and "for i in
\* range(0, numbers_of_commits[num_day])", draw by draw: cum[d] is the number
\* of draws made before day d, so draw k (from 0) is made on the day d with
\* cum[d] <= k < cum[d + 1].  A plan shorter than 29 days ends the outer loop
\* with IndexError at its first missing day.
loop_days(plan) == IF Len(plan) < 29 THEN Len(plan) ELSE 29

cumulative(plan) == [d \in 0 .. loop_days(plan) |-> sum_range(plan, 1, d)]

num_days(cum, days) ==
    [k \in 0 .. cum[days] - 1 |->
       CHOOSE d \in 0 .. days - 1 : cum[d] <= k /\ k < cum[d + 1]]

\* The number of draws written before the loops end: none when the first
\* draw is from an empty range (ValueError), those before the first index
\* outside the list (IndexError), else all of them.
draws_done(l, draws, start_commit, period) ==
    LET bad == { k \in 0 .. draws - 1 : ~InRange(l, start_commit + k) }
    IN  IF draws > 0 /\ period[1] > period[2] THEN 0
        ELSE IF bad = {} THEN draws
        ELSE Min(bad)

loop_error(plan, draws, done, period) ==
    IF done < draws
    THEN (IF period[1] > period[2] THEN "ValueError" ELSE "IndexError")
    ELSE IF Len(plan) < 29 THEN "IndexError" ELSE "none"

\* Draw k is written to logs[num_commit], num_commit = start_commit + k.
targets(l, done, start_commit) ==
    [k \in 0 .. done - 1 |-> Norm(start_commit + k, Len(l))]

\* "timestamp = day + commit_time" of draw k
timestamps(done, nd, sd, period, stream) ==
    [k \in 0 .. done - 1 |->
       day_of(sd, nd[k]) + randint(period[1], period[2], stream, k)]

\* The list after the writes; a record written twice keeps its last write.
written(l, target, timestamp) ==
    [p \in 1 .. Len(l) |->
       LET ks == { k \in DOMAIN target : target[k] = p - 1 }
       IN  IF ks = {} THEN l[p]
           ELSE [l[p] EXCEPT !.author_date = timestamp[Max(ks)],
                             !.committer_date = timestamp[Max(ks)]]]

----------------------------------------------------------------------------
(* Inputs *)

\* git.dump_logs: MkLogs(n, step, jump, main, q, other) is a log of n commits
\* by `main`, `step` seconds apart from T0 on, with 30 more days between
\* commits jump-1 and jump (jump = 0: nowhere), commit q (a Python index)
\* being by `other`.  Author dates never decrease.
T0 == 1000 * DAY + 8 * 3600

Steps == {600, 12 * 3600, 14 * 3600}

Jumps == {0, 2}

Emails == {"me", "bob"}

MkCommit(k, n, step, jump, main, q, other) ==
    LET t == T0 + k * step + (IF jump /= 0 /\ k >= jump THEN 30 * DAY ELSE 0)
    IN  [author_email |-> IF k = Norm(q, n) THEN other ELSE main,
         author_date |-> t, committer_date |-> t]

MkLogs(n, step, jump, main, q, other) ==
    [k \in 1 .. n |-> MkCommit(k - 1, n, step, jump, main, q, other)]

DumpedLogs ==
    { MkLogs(n, step, jump, main, 1, main) :
        n \in (MIN_COMMITS - 1) .. MaxLen, step \in Steps, jump \in Jumps,
        main \in Emails }
    \cup { MkLogs(n, step, 0, main, q, "eve") :
             n \in (MIN_COMMITS - 1) .. MaxLen, step \in Steps,
             main \in Emails, q \in {1, -1} }

\* git.get_contributors
ContributorLists == {<<"bob", "eve", "me">>, <<"eve", "bob">>, <<"eve">>}

\* time.time()
Nows == {T0 + 400 * DAY}

\* gauss.generate_in_range(5.0/3, 29, 50, 60): 29 counts whose sum lies in
\* 50 .. 60.  Spread(t, n) deals t commits evenly over n days, Peak(t, c)
\* puts them all on day c.
Spread(t, n) ==
    [d \in 1 .. n |-> (t \div n) + (IF d - 1 < t % n THEN 1 ELSE 0)]

Peak(t, c) == [d \in 1 .. NB_DAYS |-> IF d - 1 = c THEN t ELSE 0]

generate_in_range ==
    { Spread(t, NB_DAYS) : t \in MIN_TOTAL .. MAX_TOTAL }
    \cup { Peak(t, c) : t \in {MIN_TOTAL, MAX_TOTAL}, c \in {0, NB_DAYS - 1} }

\* What a generator that breaks its contract may return.
MalformedPlans ==
    { Spread(t, n) : t \in {MIN_TOTAL, MAX_TOTAL},
                     n \in {NB_DAYS - 1, NB_DAYS + 1} }

----------------------------------------------------------------------------
(* The __main__ script *)

Init ==
    /\ logs \in DumpedLogs
    /\ logs0 = logs
    /\ pc = "start"
    /\ num_commit = -1
    /\ contributor = None
    /\ trace = <<>>
    /\ rebuilds = <<>>
    /\ error = "none"
    /\ numbers_of_commits = <<>>
    /\ min_time = -1
    /\ max_time = -1
    /\ start_date = -1
    /\ writes = <<>>

Locals == <<numbers_of_commits, min_time, max_time, start_date, writes>>

\* The contributors to replace: a list of emails, or 'all'.
List(emails) == <<"list">> \o emails

All == <<"all">>

\* git.rebuild_repository(repository, logs, ..., replaced, offset)
Rebuild(replaced, n, now) ==
    rebuilds' = Append(rebuilds, [replaced |-> replaced, num_commit |-> n,
                                  offset |-> compute_offset(logs, n, now)])

\* "if len(logs) < 50: sys.exit(1)"
CheckSize ==
    /\ pc = "start"
    /\ pc' = IF Len(logs) < MIN_COMMITS THEN "exit1" ELSE "self"
    /\ UNCHANGED <<logs, logs0, num_commit, contributor, trace,
                   rebuilds, error, Locals>>

SelfStreak ==
    /\ pc = "self"
    /\ \E now \in Nows :
         LET n == find_50commits_month(logs, your_email)
         IN  /\ num_commit' = n
             /\ trace' = Append(trace, "self")
             /\ IF n /= -1
                THEN Rebuild(List(<<>>), n, now) /\ pc' = "exit0"
                ELSE UNCHANGED rebuilds /\ pc' = "contributor"
    /\ UNCHANGED <<logs, logs0, contributor, error, Locals>>

ContributorStreak ==
    /\ pc = "contributor"
    /\ \E now \in Nows, contributors \in ContributorLists :
         LET r == find_contributor_50commits_month(contributors, logs)
         IN  /\ contributor' = r[1]
             /\ num_commit' = r[2]
             /\ trace' = Append(trace, "contributor")
             /\ IF r[1] /= None
                THEN Rebuild(List(<<r[1]>>), r[2], now) /\ pc' = "exit0"
                ELSE UNCHANGED rebuilds /\ pc' = "any"
    /\ UNCHANGED <<logs, logs0, error, Locals>>

AnyStreak ==
    /\ pc = "any"
    /\ \E now \in Nows :
         LET n == find_50commits_month(logs, None)
         IN  /\ num_commit' = n
             /\ trace' = Append(trace, "any")
             /\ IF n /= -1
                THEN Rebuild(All, n, now) /\ pc' = "exit0"
                ELSE UNCHANGED rebuilds /\ pc' = "fallback"
    /\ UNCHANGED <<logs, logs0, contributor, error, Locals>>

\* "last_commit = len(logs) - 1; redistribute_commits(logs, last_commit)".
\* (\E x \in {e} names the value of e.)
RedistributeWith(plan, stream) ==
    /\ pc = "fallback"
    /\ numbers_of_commits' = plan
    /\ num_commit' = Len(logs) - 1
    /\ trace' = Append(trace, "redistribute")
    /\ IF plan_rejected(plan)
       THEN /\ error' = "TypeError"
            /\ pc' = "crash"
            /\ UNCHANGED <<logs, min_time, max_time, start_date, writes>>
       ELSE \E total_commits \in {sum(plan)} :
            \E start_commit \in {Len(logs) - 1 - total_commits + 1} :
            \E end_commit \in {Len(logs) - 1} :
            \E period \in {compute_commit_time_period(
                             window_slice(logs, start_commit, end_commit))} :
              /\ min_time' = period[1]
              /\ max_time' = period[2]
              /\ IF ~InRange(logs, start_commit)
                 THEN /\ error' = "IndexError"
                      /\ pc' = "crash"
                      /\ UNCHANGED <<logs, start_date, writes>>
                 ELSE \E sd \in {midnight(first_date(logs, start_commit))} :
                      \E cum \in {cumulative(plan)} :
                      \E draws \in {cum[loop_days(plan)]} :
                      \E nd \in {num_days(cum, loop_days(plan))} :
                      \E done \in {draws_done(logs, draws, start_commit, period)} :
                      \E target \in {targets(logs, done, start_commit)} :
                      \E timestamp \in {timestamps(done, nd, sd, period, stream)} :
                      \E err \in {loop_error(plan, draws, done, period)} :
                        /\ start_date' = sd
                        /\ logs' = written(logs, target, timestamp)
                        /\ writes' = [k \in 1 .. done |-> target[k - 1]]
                        /\ error' = err
                        /\ pc' = IF err = "none" THEN "redistributed"
                                 ELSE "crash"
    /\ UNCHANGED <<logs0, contributor, rebuilds>>

Redistribute ==
    \E plan \in generate_in_range, stream \in Streams :
        RedistributeWith(plan, stream)

RedistributeMalformed ==
    \E plan \in MalformedPlans, stream \in Streams :
        RedistributeWith(plan, stream)

\* "offset = compute_offset(logs, last_commit); git.rebuild_repository(...)"
FallbackRebuild ==
    /\ pc = "redistributed"
    /\ \E now \in Nows : Rebuild(All, num_commit, now)
    /\ pc' = "exit0"
    /\ UNCHANGED <<logs, logs0, num_commit, contributor, trace,
                   error, Locals>>

Next ==
    \/ CheckSize
    \/ SelfStreak
    \/ ContributorStreak
    \/ AnyStreak
    \/ Redistribute
    \/ FallbackRebuild

Spec == Init /\ [][Next]_vars

\* The same script with a distribution generator that may break its contract.
NextMalformed == Next \/ RedistributeMalformed

SpecMalformed == Init /\ [][NextMalformed]_vars

----------------------------------------------------------------------------
(* Properties *)

Last(q) == q[Len(q)]

\* The strategy that ran last
Ran(strategy) == trace /= <<>> /\ Last(trace) = strategy

Searched == Ran("self") \/ Ran("contributor") \/ Ran("any")

\* redistribute_commits ran to its end
Redistributed == Ran("redistribute") /\ error = "none"

Indices(l) == 0 .. Len(l) - 1

\* Calendar day and time of day of a timestamp
CalendarDay(t) == t \div DAY

TimeOfDay(t) == t % DAY

Sorted(l) ==
    \A a \in 0 .. Len(l) - 2 :
        Get(l, a).author_date <= Get(l, a + 1).author_date

\* The commits before commit i that pass the filter (every commit, with no
\* filter) and are dated at most 29 x 24 h before commit i
Qualifying(l, author, i) ==
    { j \in 0 .. i - 1 :
        /\ author = None \/ Get(l, j).author_email = author
        /\ Get(l, i).author_date - Get(l, j).author_date <= MONTH }

Streaks(l, author) ==
    { i \in Indices(l) : Cardinality(Qualifying(l, author, i)) >= 50 }

Filters == {"me", "bob", "eve", "nobody", None}

\* The window asked of redistribute_commits: its anchor, the plan's total
\* and its first index
Anchor == Len(logs0) - 1

Total == sum(numbers_of_commits)

Start == Anchor - Total + 1

\* The indices written
Written == { writes[k] : k \in DOMAIN writes }

\* The author dates of the records of S do not decrease with the index (S is
\* a range of indices)
NonDecreasing(S, date(_)) ==
    \A a \in S : (a + 1) \in S => date(a) <= date(a + 1)

----------------------------------------------------------------------------
\* C1: the search with no author filter (the third strategy), on a sorted
\* log: when some commit has at least 50 commits dated within 29 x 24 h
\* before it, the search returns an index, and at least 50 commits before
\* that index are dated within 29 x 24 h of it.
C1_NoFilterFindsMonth ==
    (Ran("any") /\ Sorted(logs) /\ Streaks(logs, None) /= {})
        => /\ num_commit /= -1
           /\ Cardinality(Qualifying(logs, None, num_commit)) >= 50

\* C2: the search with an author filter (the first strategy, filter
\* your_email), on a sorted log, returns the largest index with 50 commits of
\* that author dated within 29 x 24 h before it, and -1 exactly when there is
\* none; 50 such commits are enough.
C2_LatestStreak ==
    (Ran("self") /\ Sorted(logs))
        => num_commit = IF Streaks(logs, your_email) = {} THEN -1
                        ELSE Max(Streaks(logs, your_email))

\* C3: soundness of the search, for every filter, on the sorted log as it is
\* while the searches run: a result other than -1 is an index of 51 ..
\* len(logs) - 1 with at least 50 commits of the filter's author dated within
\* 29 x 24 h before it; a filter that matches no commit gives -1; the log is
\* still the one that was dumped.
C3_SearchSound ==
    Searched =>
        /\ logs = logs0
        /\ Sorted(logs)
        /\ \A author \in Filters :
             LET i == find_50commits_month(logs, author)
             IN  /\ i /= -1 =>
                       /\ 51 <= i /\ i <= Len(logs) - 1
                       /\ Cardinality(Qualifying(logs, author, i)) >= 50
                 /\ (\A j \in Indices(logs) :
                        Get(logs, j).author_email /= author) => i = -1
        /\ Ran("self") =>
             (num_commit /= -1 =>
                Cardinality(Qualifying(logs, your_email, num_commit)) >= 50)

C3_Witness ==
    /\ Ran("contributor")
    /\ num_commit /= -1
    /\ contributor = "bob"
    /\ \E j \in Indices(logs) : Get(logs, j).author_email = "eve"

\* C4: redistribute_commits, called on the last index of a log of at least
\* 50 commits with a 29-day plan whose total is in 50 .. 60, writes each of
\* the `total` records anchor-total+1 .. anchor once, leaving them with equal
\* author and committer dates, and leaves every other record, the order and
\* the length of the log as they were.
C4_ExactWindow ==
    (Ran("redistribute") /\ Len(numbers_of_commits) = 29)
        => LET total == Total
               start == Anchor - total + 1
               anchor == Anchor
           IN  /\ Len(logs) = Len(logs0)
               /\ writes = [k \in 1 .. total |-> start + k - 1]
               /\ \A p \in Indices(logs) :
                    IF start <= p /\ p <= anchor
                    THEN /\ logs[p + 1].author_date = logs[p + 1].committer_date
                         /\ logs[p + 1].author_email = logs0[p + 1].author_email
                    ELSE logs[p + 1] = logs0[p + 1]

\* C5: with a 29-day plan and a window inside the log, redistribute_commits
\* leaves plan[d] records of the window on day d of the 29 days that start at
\* the day of the window's first commit as dumped, the records taking the
\* days in window order.
C5_PlanFollowed ==
    (Redistributed /\ Len(numbers_of_commits) = 29 /\ Start >= 0)
        => LET start == Start
               window == start .. Anchor
               day0 == CalendarDay(logs0[start + 1].author_date)
               \* the day of each record of the window, from day0
               since == [p \in window |->
                           CalendarDay(logs[p + 1].author_date) - day0]
           IN  /\ \A d \in 0 .. 28 :
                    Cardinality({ p \in window : since[p] = d })
                      = numbers_of_commits[d + 1]
               /\ \A p \in window : since[p] \in 0 .. 28
               /\ \A p \in window :
                    (p + 1) \in window => since[p] <= since[p + 1]

C5_Witness ==
    /\ Redistributed
    /\ Start > 0
    /\ \E d \in 1 .. 29 : numbers_of_commits[d] = 0
    /\ logs /= logs0

\* C6 as stated: on a sorted log, redistribute_commits leaves the author
\* dates of the records it rewrites non-decreasing in index order, whatever
\* the plan and the draws.
C6_WindowSorted ==
    (Redistributed /\ Sorted(logs0))
        => LET date(p) == logs[p + 1].author_date
           IN  NonDecreasing(Written, date)

\* C6 amended: on a sorted log, redistribute_commits leaves the calendar days
\* of the author dates of the records it rewrites non-decreasing in index
\* order (within a day, the draws decide the order).
C6_DaysSorted ==
    (Redistributed /\ Sorted(logs0))
        => LET day(p) == CalendarDay(logs[p + 1].author_date)
           IN  NonDecreasing(Written, day)

\* Two records of one synthetic day, the later one earlier in the day
C6_Witness ==
    /\ Redistributed
    /\ Sorted(logs0)
    /\ \E a \in Written :
         /\ (a + 1) \in Written
         /\ logs[a + 1].author_date > logs[a + 2].author_date
         /\ CalendarDay(logs[a + 1].author_date)
              = CalendarDay(logs[a + 2].author_date)

\* C7: when the generator returns a plan that has not 29 entries,
\* redistribute_commits ends with an error and no record is written: every
\* record has the author date and the committer date it was dumped with.
C7_MalformedPlanAborts ==
    (Ran("redistribute") /\ Len(numbers_of_commits) /= 29)
        => /\ pc = "crash"
           /\ error /= "none"
           /\ writes = <<>>
           /\ logs = logs0

C7_Witness ==
    /\ Ran("redistribute")
    /\ Len(numbers_of_commits) = 28
    /\ pc = "crash"

\* C8: a run on at least 50 commits tries self streak, contributor streak,
\* any-author streak and redistribution in that order, stops at the first
\* that succeeds and calls the rebuild once, with the offset of that
\* strategy's last commit and the contributors to replace [], [the found
\* contributor], 'all', 'all'; a run on fewer than 50 commits ends with no
\* search, no write and no rebuild.
Ended == pc \in {"exit0", "exit1", "crash"}

Strategies == <<"self", "contributor", "any", "redistribute">>

C8_Orchestration ==
    Ended =>
        IF Len(logs0) < 50
        THEN trace = <<>> /\ rebuilds = <<>> /\ logs = logs0
        ELSE /\ trace = SubSeq(Strategies, 1, Len(trace))
             /\ trace /= <<>>
             /\ Len(rebuilds) = 1
             /\ rebuilds[1].num_commit = num_commit
             /\ \E now \in Nows :
                  rebuilds[1].offset
                    = now - Get(logs, num_commit).author_date
             /\ rebuilds[1].replaced =
                  CASE Last(trace) = "self" -> List(<<>>)
                    [] Last(trace) = "contributor" -> List(<<contributor>>)
                    [] OTHER -> All
             /\ Last(trace) = "contributor" => contributor /= None
             /\ Last(trace) = "redistribute"
                  => num_commit = Len(logs) - 1
             /\ Last(trace) /= "redistribute" => logs = logs0

\* C9 as stated: the 29 days into which redistribute_commits puts the
\* commits end on the day of the anchor commit as dumped.
C9_EndsOnAnchorDay ==
    (Redistributed /\ Sorted(logs0))
        => CalendarDay(start_date) + 28
             = CalendarDay(Get(logs0, Anchor).author_date)

\* C9 amended: the 29 days start on the day, as dumped, of the first commit
\* that redistribute_commits rewrites (logs[anchor - total + 1]) and end 28
\* days later: every rewritten author date lies in them.
C9_StartsOnFirstDay ==
    (Redistributed /\ Sorted(logs0))
        => LET first == Norm(Start, Len(logs0))
               day0 == CalendarDay(logs0[first + 1].author_date)
           IN  /\ start_date = day0 * DAY
               /\ writes[1] = first
               /\ \A p \in Written :
                    /\ day0 <= CalendarDay(logs[p + 1].author_date)
                    /\ CalendarDay(logs[p + 1].author_date) <= day0 + 28

\* The first rewritten commit and the anchor were dumped on different days
C9_Witness ==
    /\ Redistributed
    /\ Sorted(logs0)
    /\ CalendarDay(Get(logs0, writes[1]).author_date)
         /= CalendarDay(Get(logs0, Anchor).author_date)

\* C10: the range the draws are taken from is the least and the greatest
\* time of day, as dumped, of the commits anchor-total+1 .. anchor, the
\* anchor included, and every rewritten date has its time of day in it.
C10_Envelope ==
    (Redistributed /\ Start >= 0)
        => LET window == Start .. Anchor
               times == { TimeOfDay(logs0[p + 1].author_date) :
                            p \in window }
               least == Min(times)
               greatest == Max(times)
           IN  /\ min_time = least
               /\ max_time = greatest
               /\ \A p \in window :
                    /\ least <= TimeOfDay(logs[p + 1].author_date)
                    /\ TimeOfDay(logs[p + 1].author_date) <= greatest

====
